---- MODULE Spec2Model ----
(***************************************************************************)
(* A model of the Builder class of src/mod.ts.                             *)
(*                                                                         *)
(* Spec        the task registry of one Builder: addTask, begin, runTask,  *)
(*             the handlers it calls (user code of type TaskHandler: any   *)
(*             interleaving of nested runTask, runCommand and compile      *)
(*             calls, then a numeric result), fatal and the process exit.  *)
(* NetSpec     the remote command dispatch: a client Builder               *)
(*             (allowExternal, exCall), a server Builder (startExServer)   *)
(*             and the WebSocket connections exCall makes between them.    *)
(* ServerSpec  the server Builder alone, with any programs connecting to   *)
(*             it and sending it any text.                                 *)
(***************************************************************************)
EXTENDS Integers, Sequences, FiniteSets, TLC

\* ------------------------------------------------------------ bounds

MaxTasks == 3
MaxDepth == 3
MaxTime == 1
MaxCalls == 2
MaxMsgs == 2
MaxPeers == 2

\* ------------------------------------------------------ input domains

\* Task names a build script registers or asks for; "zz" is never registered.
Names == {"a", "b"}
Unknown == "zz"
\* What a handler may return (TaskHandler returns a number).
Results == {-1, 0, 1}
\* fs.Stats.mtime: a time in milliseconds, or NoTime when the platform has none.
NoTime == -1
MTimes == 0..MaxTime
\* Shell commands, as character sequences.
Commands == {<<"t">>, <<"f">>}
\* exCall's ip argument: undefined, the server's host, another host, and text
\* that makes no URL.
NoIp == "undefined"
ServerHost == "127.0.0.1"
OtherHost == "10.0.0.9"
BadIp == "bad host"
Ips == {NoIp, OtherHost, BadIp}
\* A port argument: 0 stands for undefined (the default applies).
OtherPort == 8086 + 1
PortArgs == {0, OtherPort}

VARIABLES
    \* ---- Builder fields (src/mod.ts:29-33)
    tasks,          \* Task[]: <<[name, handler]>>, handler = identity of the function
    taskStack,      \* string[]
    shouldVerbose,  \* boolean
    \* ---- the process
    frames,         \* runTask activations whose handler is executing, outermost first
    exited,         \* process.exit was called
    exitStatus,     \* its argument
    last,           \* what the most recent operation did (an observation)
    \* ---- remote dispatch (NetSpec)
    allowExternalCommands,  \* client Builder field (src/mod.ts:33)
    allowCalled,    \* allowExternal() has been called on the client
    clientExited,   \* the client process called process.exit
    clientErrors,   \* number of error() lines the client's message listener logged
    calls,          \* the exCall calls made, in order
    localRuns,      \* commands the client executed locally, in order
    conns,          \* the client's WebSocket objects, by connection id
    toServer,       \* frames in flight to the server, per connection id
    toClient,       \* replies in flight to the client, per connection id
    serverPort,     \* 0, or the port startExServer listens on
    serverConns,    \* connection ids the server has an open socket for
    serverExited,   \* the server process called process.exit
    executing,      \* shell commands running on the server: set of [conn, msg, cmd]
    served          \* per connection id: what the server did with each message, in order

regVars == <<tasks, taskStack, shouldVerbose, frames, exited, exitStatus, last>>
netVars == <<allowExternalCommands, allowCalled, clientExited, clientErrors, calls,
             localRuns, conns, toServer, toClient, serverPort, serverConns,
             serverExited, executing, served>>
vars == <<regVars, netVars>>

\* ------------------------------------------------------------ helpers

RECURSIVE Reverse(_)
\* Array.prototype.reverse
Reverse(s) == IF s = <<>> THEN <<>> ELSE Append(Reverse(Tail(s)), Head(s))

\* Array.prototype.pop: the array without its last element
Pop(s) == IF s = <<>> THEN <<>> ELSE SubSeq(s, 1, Len(s) - 1)

\* ------------------------------------------------- the task registry

RECURSIVE FindLast(_, _, _)
\* A lookup from the end: the index of the last task named `task`.
FindLast(ts, task, i) ==
    IF i < 1 THEN 0
    ELSE IF ts[i].name = task THEN i
    ELSE FindLast(ts, task, i - 1)

RECURSIVE FindFrom(_, _, _)
\* Array.prototype.find, from index i on: the index of the first task
\* named `task`, 0 for undefined.
FindFrom(ts, task, i) ==
    IF i > Len(ts) THEN 0
    ELSE IF ts[i].name = task THEN i
    ELSE FindFrom(ts, task, i + 1)

\* Find, were the last task of a name to win.
FindOrLast(ts, task) == FindLast(ts, task, Len(ts))

\* this.tasks.find((v)=>v.name==task)
Find(ts, task) == FindFrom(ts, task, 1)

\* The exit status of a normal end.
ExitStatusZero == 1 - 1

\* process.exit(1) in fatal
ExitStatus == 1

\* fatal: the task stack as fatal leaves it (reversed in place when it is
\* printed)
FatalStack(stack, verbose) ==
    IF Len(stack) > 0 /\ verbose THEN Reverse(stack) ELSE stack

\* fatal(...): print, exit. obs is the caller's observation.
Fatal(obs) ==
    /\ taskStack' = FatalStack(taskStack, shouldVerbose)
    /\ exited' = TRUE
    /\ exitStatus' = ExitStatus
    /\ last' = obs

\* FailedResp, were zero to count as a failure.
FailedRespLoose(resp) == resp <= 0

\* if(resp < 0) this.error(...)
FailedResp(resp) == resp < 0

\* StackAfterHandler, were the pop left out.
StackAfterHandlerKept(stack) == stack

\* this.taskStack.pop() after the handler returned
StackAfterHandler(stack) == Pop(stack)

\* return resp
RunTaskResult(resp) == resp

\* runTask up to and including the call of the handler.
RunTaskEnter(task, fromBegin) ==
    LET i == Find(tasks, task) IN
    IF i = 0
    THEN /\ Fatal([op |-> "runTask", fatal |-> TRUE, name |-> task,
                   stack |-> taskStack, depth |-> Len(frames)])
         /\ UNCHANGED frames
    ELSE /\ taskStack' = Append(taskStack, tasks[i].name)
         /\ frames' = Append(frames, [name |-> task, h |-> tasks[i].handler,
                                      entry |-> taskStack, fromBegin |-> fromBegin])
         /\ last' = [op |-> "runTask", fatal |-> FALSE, name |-> task,
                     stack |-> taskStack, depth |-> Len(frames)]
         /\ UNCHANGED <<exited, exitStatus>>

\* addTask(name, desc, c): the handler c is a new function.
AddTask(name) ==
    /\ ~exited
    /\ Len(tasks) < MaxTasks
    /\ tasks' = Append(tasks, [name |-> name, handler |-> Len(tasks) + 1])
    /\ last' = [op |-> "addTask"]
    /\ UNCHANGED <<taskStack, shouldVerbose, frames, exited, exitStatus>>
    /\ UNCHANGED netVars

\* begin(args): the parser runs the command handler of the one task named on
\* the command line, which sets the verbose flag and calls runTask.
Begin(i, v) ==
    /\ ~exited
    /\ frames = <<>>
    /\ i \in 1..Len(tasks)
    /\ shouldVerbose' = (IF v THEN TRUE ELSE shouldVerbose)
    /\ RunTaskEnter(tasks[i].name, TRUE)
    /\ UNCHANGED tasks
    /\ UNCHANGED netVars

\* runTask(task, args) called by the build script or by the executing handler.
RunTask(task) ==
    /\ ~exited
    /\ Len(frames) < MaxDepth
    /\ RunTaskEnter(task, FALSE)
    /\ UNCHANGED <<tasks, shouldVerbose>>
    /\ UNCHANGED netVars

\* The executing handler returns resp; runTask pops, logs and returns.
Return(resp) ==
    /\ ~exited
    /\ frames # <<>>
    /\ LET f == frames[Len(frames)] IN
       /\ taskStack' = StackAfterHandler(taskStack)
       /\ frames' = Pop(frames)
       /\ last' = [op |-> "return", name |-> f.name, h |-> f.h, resp |-> resp,
                   value |-> RunTaskResult(resp), logged |-> FailedResp(resp),
                   entry |-> f.entry]
    /\ UNCHANGED <<tasks, shouldVerbose, exited, exitStatus>>
    /\ UNCHANGED netVars

\* RunCommandOutcome, were continueIfFailed not looked at.
RunCommandOutcomeStrict(ok, continueIfFailed) ==
    IF ok THEN "true" ELSE "fatal"

\* runCommand's try/catch: what the call does, given whether execSync threw.
RunCommandOutcome(ok, continueIfFailed) ==
    IF ok THEN "true"
    ELSE IF ~continueIfFailed THEN "fatal"
    ELSE "false"

\* runCommand(command, continueIfFailed) called by the build script or by the
\* executing handler; ok: the shell command exited with status 0.
RunCommand(command, continueIfFailed, ok) ==
    /\ ~exited
    /\ LET out == RunCommandOutcome(ok, continueIfFailed)
           obs == [op |-> "runCommand", command |-> command,
                   continueIfFailed |-> continueIfFailed, ok |-> ok, out |-> out]
       IN IF out = "fatal"
          THEN Fatal(obs)
          ELSE /\ last' = obs
               /\ UNCHANGED <<taskStack, exited, exitStatus>>
    /\ UNCHANGED <<tasks, shouldVerbose, frames>>
    /\ UNCHANGED netVars

\* CompileDecision, were the comparison of the times >= .
CompileDecisionGeq(srcExists, dstExists, srcM, dstM) ==
    IF ~srcExists THEN "fatal"
    ELSE IF ~dstExists THEN "run"
    ELSE IF srcM = NoTime
            \/ (IF srcM = NoTime THEN 0 ELSE srcM) >= (IF dstM = NoTime THEN 0 ELSE dstM)
    THEN "run"
    ELSE "skip"

\* compile's tests, in order: existsSync(source), existsSync(destination),
\* !sourceStats.mtime || (source time ?? 0) > (destination time ?? 0)
CompileDecision(srcExists, dstExists, srcM, dstM) ==
    IF ~srcExists THEN "fatal"
    ELSE IF ~dstExists THEN "run"
    ELSE IF srcM = NoTime
            \/ (IF srcM = NoTime THEN 0 ELSE srcM) > (IF dstM = NoTime THEN 0 ELSE dstM)
    THEN "run"
    ELSE "skip"

\* compile(command, source, destination); the files' state is the input:
\* whether each exists and its modification time. ok: the outcome of the
\* shell command, if it is run.
Compile(command, srcExists, dstExists, srcM, dstM, ok) ==
    /\ ~exited
    /\ LET d == CompileDecision(srcExists, dstExists, srcM, dstM)
           out == IF d = "run" THEN RunCommandOutcome(ok, FALSE) ELSE d
           obs == [op |-> "compile", command |-> command,
                   srcExists |-> srcExists, dstExists |-> dstExists,
                   srcM |-> srcM, dstM |-> dstM,
                   ran |-> IF d = "run" THEN 1 ELSE 0, out |-> out]
       IN IF out = "fatal"
          THEN Fatal(obs)
          ELSE /\ last' = obs
               /\ UNCHANGED <<taskStack, exited, exitStatus>>
    /\ UNCHANGED <<tasks, shouldVerbose, frames>>
    /\ UNCHANGED netVars

Init ==
    /\ tasks = <<>>
    /\ taskStack = <<>>
    /\ shouldVerbose = FALSE
    /\ frames = <<>>
    /\ exited = FALSE
    /\ exitStatus = 0
    /\ last = [op |-> "new"]
    /\ allowExternalCommands = FALSE
    /\ allowCalled = FALSE
    /\ clientExited = FALSE
    /\ clientErrors = 0
    /\ calls = <<>>
    /\ localRuns = <<>>
    /\ conns = <<>>
    /\ toServer = <<>>
    /\ toClient = <<>>
    /\ serverPort = 0
    /\ serverConns = {}
    /\ serverExited = FALSE
    /\ executing = {}
    /\ served = <<>>

\* The state of a file compile looks at: missing, or present with its mtime.
FileStates == {<<FALSE, NoTime>>} \cup {<<TRUE, m>> : m \in MTimes \cup {NoTime}}

Next ==
    \/ \E name \in Names : AddTask(name)
    \/ \E i \in 1..MaxTasks, v \in BOOLEAN : Begin(i, v)
    \/ \E task \in Names \cup {Unknown} : RunTask(task)
    \/ \E resp \in Results : Return(resp)
    \/ \E c \in Commands, cont \in BOOLEAN, ok \in BOOLEAN : RunCommand(c, cont, ok)
    \/ \E c \in Commands, src \in FileStates, dst \in FileStates, ok \in BOOLEAN :
          Compile(c, src[1], dst[1], src[2], dst[2], ok)

Spec == Init /\ [][Next]_vars


\* --------------------------------------------------- remote dispatch

\* The request prefix of the wire protocol.
Prefix == <<"r", ":", ":">>
\* The WebSocket close frame and the peer's answer to it.
CloseFrame == <<"CLOSE">>
CloseAck == "CLOSE"

\* What another peer of the server may send: framed commands, and text
\* without the prefix (too short, wrong first letter).
Messages == {Prefix \o c : c \in Commands} \cup {<<"r", ":">>, <<"x", ":", ":", "t">>}

\* `r::${s}`
Framed(s) == Prefix \o s

\* String.prototype.startsWith
StartsWith(msg, pre) ==
    Len(msg) >= Len(pre) /\ SubSeq(msg, 1, Len(pre)) = pre

\* msg.slice(3)
Slice3(msg) == SubSeq(msg, 4, Len(msg))

\* ReplyFor, were the two statuses swapped.
ReplyForInverted(returned) == IF returned THEN 1 ELSE 0

\* (this.runCommand(msg.slice(3), true) ?? true) ? 0 : 1
ReplyFor(returned) == IF returned THEN 0 ELSE 1

\* ws's send(data) with a number: data.toString()
NumToWire(n) == IF n = 0 THEN "0" ELSE "1"

\* ev.data != 0: the loose comparison converts the text to a number
DataNotZero(data) == (IF data = "0" THEN 0 ELSE 1) # 0

\* ip ?? '127.0.0.1'
UrlHost(ip) == IF ip = NoIp THEN ServerHost ELSE ip

\* port = 8086, the default of startExServer and of exCall
DefaultPort == 8086

PortOf(port) == IF port = 0 THEN DefaultPort ELSE port

\* new WebSocket(url) throws on text that is no URL.
UrlOk(ip) == ip # BadIp

\* ExCallLocal, were the flag not looked at.
ExCallLocalAlways == TRUE

\* if(!this.allowExternalCommands)
ExCallLocal == ~allowExternalCommands

\* ServerIdle, were the command run without blocking (exec).
ServerIdleAlways == TRUE

\* execSync blocks the server's only thread until the command has ended: no
\* other event is handled while a command runs.
ServerIdle == executing = {}

\* A connection attempt succeeds when the server listens at that address.
Reachable(c) ==
    /\ serverPort # 0
    /\ ~serverExited
    /\ conns[c].host = ServerHost
    /\ conns[c].port = serverPort

\* A new connection id, with its queues.
NewConn(rec) ==
    /\ conns' = Append(conns, rec)
    /\ toServer' = Append(toServer, <<>>)
    /\ toClient' = Append(toClient, <<>>)
    /\ served' = Append(served, <<>>)

\* allowExternal()
AllowExternal ==
    /\ ~clientExited
    /\ ~allowCalled
    /\ allowExternalCommands' = TRUE
    /\ allowCalled' = TRUE
    /\ UNCHANGED <<clientExited, clientErrors, calls, localRuns, conns, toServer,
                   toClient, serverPort, serverConns, serverExited, executing, served>>
    /\ UNCHANGED regVars

\* exCall(s, ip, port); ok: the outcome of the command if it is run locally.
ExCall(s, ip, port, ok) ==
    /\ ~clientExited
    /\ Len(calls) < MaxCalls
    /\ calls' = Append(calls, [s |-> s, ip |-> ip, port |-> port,
                               afterAllow |-> allowCalled])
    /\ IF ExCallLocal
       THEN \* this.runCommand(s); return
            /\ localRuns' = Append(localRuns, s)
            /\ clientExited' = (RunCommandOutcome(ok, FALSE) = "fatal")
            /\ UNCHANGED <<conns, toServer, toClient, served>>
       ELSE /\ IF UrlOk(ip)
               THEN NewConn([kind |-> "excall", call |-> Len(calls) + 1, cmd |-> s,
                             host |-> UrlHost(ip), port |-> PortOf(port),
                             readyState |-> "connecting", sent |-> <<>>,
                             seen |-> <<>>])
               ELSE \* the constructor threw: caught and printed
                    UNCHANGED <<conns, toServer, toClient, served>>
            /\ UNCHANGED <<localRuns, clientExited>>
    /\ UNCHANGED <<allowExternalCommands, allowCalled, clientErrors, serverPort,
                   serverConns, serverExited, executing>>
    /\ UNCHANGED regVars

\* The 'open' listener of exCall: send the framed command, then close().
WsOpen(c) ==
    /\ ~clientExited
    /\ c \in 1..Len(conns)
    /\ conns[c].kind = "excall"
    /\ conns[c].readyState = "connecting"
    /\ Reachable(c)
    /\ conns' = [conns EXCEPT ![c].readyState = "closing",
                              ![c].sent = <<Framed(conns[c].cmd)>>]
    /\ toServer' = [toServer EXCEPT ![c] = <<Framed(conns[c].cmd), CloseFrame>>]
    /\ serverConns' = serverConns \cup {c}
    /\ UNCHANGED <<allowExternalCommands, allowCalled, clientExited, clientErrors,
                   calls, localRuns, toClient, serverPort, serverExited, executing,
                   served>>
    /\ UNCHANGED regVars

\* The 'error' listener of exCall: fatal.
WsError(c) ==
    /\ ~clientExited
    /\ c \in 1..Len(conns)
    /\ conns[c].kind = "excall"
    /\ conns[c].readyState = "connecting"
    /\ ~Reachable(c)
    /\ conns' = [conns EXCEPT ![c].readyState = "failed"]
    /\ clientExited' = TRUE
    /\ UNCHANGED <<allowExternalCommands, allowCalled, clientErrors, calls,
                   localRuns, toServer, toClient, serverPort, serverConns,
                   serverExited, executing, served>>
    /\ UNCHANGED regVars

\* The 'message' listener of exCall, for the reply at the head of the
\* connection's queue.
ClientMessage(c) ==
    /\ ~clientExited
    /\ c \in 1..Len(conns)
    /\ conns[c].kind = "excall"
    /\ conns[c].readyState \in {"open", "closing"}
    /\ toClient[c] # <<>>
    /\ Head(toClient[c]) # CloseAck
    /\ LET data == Head(toClient[c])
           failed == DataNotZero(data)
       IN /\ conns' = [conns EXCEPT ![c].seen =
                          Append(@, [data |-> data, dispatched |-> TRUE,
                                     logged |-> failed])]
          /\ clientErrors' = clientErrors + (IF failed THEN 1 ELSE 0)
    /\ toClient' = [toClient EXCEPT ![c] = Tail(@)]
    /\ UNCHANGED <<allowExternalCommands, allowCalled, clientExited, calls,
                   localRuns, toServer, serverPort, serverConns, serverExited,
                   executing, served>>
    /\ UNCHANGED regVars

\* A reply that arrives after close() was called: the WebSocket interface
\* fires message events only while readyState is OPEN, so the runtime may
\* discard it without calling the listener.
ClientDiscard(c) ==
    /\ ~clientExited
    /\ c \in 1..Len(conns)
    /\ conns[c].kind = "excall"
    /\ conns[c].readyState = "closing"
    /\ toClient[c] # <<>>
    /\ Head(toClient[c]) # CloseAck
    /\ conns' = [conns EXCEPT ![c].seen =
                    Append(@, [data |-> Head(toClient[c]), dispatched |-> FALSE,
                               logged |-> FALSE])]
    /\ toClient' = [toClient EXCEPT ![c] = Tail(@)]
    /\ UNCHANGED <<allowExternalCommands, allowCalled, clientExited, clientErrors,
                   calls, localRuns, toServer, serverPort, serverConns,
                   serverExited, executing, served>>
    /\ UNCHANGED regVars

\* The server's answer to the close frame arrives: the socket is closed.
ClientClosed(c) ==
    /\ ~clientExited
    /\ c \in 1..Len(conns)
    /\ conns[c].kind = "excall"
    /\ toClient[c] # <<>>
    /\ Head(toClient[c]) = CloseAck
    /\ conns' = [conns EXCEPT ![c].readyState = "closed"]
    /\ toClient' = [toClient EXCEPT ![c] = Tail(@)]
    /\ UNCHANGED <<allowExternalCommands, allowCalled, clientExited, clientErrors,
                   calls, localRuns, toServer, serverPort, serverConns,
                   serverExited, executing, served>>
    /\ UNCHANGED regVars

\* startExServer(port) in the server process.
StartExServer(port) ==
    /\ serverPort = 0
    /\ serverPort' = PortOf(port)
    /\ UNCHANGED <<allowExternalCommands, allowCalled, clientExited, clientErrors,
                   calls, localRuns, conns, toServer, toClient, serverConns,
                   serverExited, executing, served>>
    /\ UNCHANGED regVars

\* The number of messages the other programs have sent so far.
RECURSIVE SumSent(_)
SumSent(i) == IF i = 0 THEN 0 ELSE Len(conns[i].sent) + SumSent(i - 1)
MsgsSent == SumSent(Len(conns))

\* Another program connects to the server.
PeerConnect ==
    /\ serverPort # 0
    /\ ~serverExited
    /\ Cardinality({c \in 1..Len(conns) : conns[c].kind = "peer"}) < MaxPeers
    /\ NewConn([kind |-> "peer", call |-> 0, cmd |-> <<>>, host |-> ServerHost,
                port |-> serverPort, readyState |-> "open", sent |-> <<>>,
                seen |-> <<>>])
    /\ serverConns' = serverConns \cup {Len(conns) + 1}
    /\ UNCHANGED <<allowExternalCommands, allowCalled, clientExited, clientErrors,
                   calls, localRuns, serverPort, serverExited, executing>>
    /\ UNCHANGED regVars

\* It sends a message.
PeerSend(c, m) ==
    /\ c \in 1..Len(conns)
    /\ conns[c].kind = "peer"
    /\ conns[c].readyState = "open"
    /\ MsgsSent < MaxMsgs
    /\ conns' = [conns EXCEPT ![c].sent = Append(@, m)]
    /\ toServer' = [toServer EXCEPT ![c] = Append(@, m)]
    /\ UNCHANGED <<allowExternalCommands, allowCalled, clientExited, clientErrors,
                   calls, localRuns, toClient, serverPort, serverConns,
                   serverExited, executing, served>>
    /\ UNCHANGED regVars

\* It closes its socket.
PeerClose(c) ==
    /\ c \in 1..Len(conns)
    /\ conns[c].kind = "peer"
    /\ conns[c].readyState = "open"
    /\ conns' = [conns EXCEPT ![c].readyState = "closing"]
    /\ toServer' = [toServer EXCEPT ![c] = Append(@, CloseFrame)]
    /\ UNCHANGED <<allowExternalCommands, allowCalled, clientExited, clientErrors,
                   calls, localRuns, toClient, serverPort, serverConns,
                   serverExited, executing, served>>
    /\ UNCHANGED regVars

\* The server's 'message' listener is called with the next message of
\* connection c: a framed command starts running (execSync), anything else
\* is ignored.
ServerMessage(c) ==
    /\ ~serverExited
    /\ ServerIdle
    /\ c \in serverConns
    /\ toServer[c] # <<>>
    /\ Head(toServer[c]) # CloseFrame
    /\ LET msg == Head(toServer[c]) IN
       IF StartsWith(msg, Prefix)
       THEN /\ executing' = executing \cup
                               {[conn |-> c, msg |-> msg, cmd |-> Slice3(msg)]}
            /\ UNCHANGED served
       ELSE /\ served' = [served EXCEPT ![c] =
                             Append(@, [msg |-> msg, ran |-> FALSE, cmd |-> <<>>,
                                        ok |-> FALSE, replies |-> <<>>])]
            /\ UNCHANGED executing
    /\ toServer' = [toServer EXCEPT ![c] = Tail(@)]
    /\ UNCHANGED <<allowExternalCommands, allowCalled, clientExited, clientErrors,
                   calls, localRuns, conns, toClient, serverPort, serverConns,
                   serverExited>>
    /\ UNCHANGED regVars

\* A running command ends (ok: with status 0); runCommand(cmd, true) returns
\* and the listener sends the reply on the same socket.
ServerFinish(e, ok) ==
    /\ ~serverExited
    /\ e \in executing
    /\ executing' = executing \ {e}
    /\ LET out == RunCommandOutcome(ok, TRUE) IN
       IF out = "fatal"
       THEN /\ serverExited' = TRUE
            /\ served' = [served EXCEPT ![e.conn] =
                             Append(@, [msg |-> e.msg, ran |-> TRUE, cmd |-> e.cmd,
                                        ok |-> ok, replies |-> <<>>])]
            /\ UNCHANGED toClient
       ELSE /\ toClient' = [toClient EXCEPT ![e.conn] =
                               Append(@, NumToWire(ReplyFor(out = "true")))]
            /\ served' = [served EXCEPT ![e.conn] =
                             Append(@, [msg |-> e.msg, ran |-> TRUE, cmd |-> e.cmd,
                                        ok |-> ok,
                                        replies |-> <<ReplyFor(out = "true")>>])]
            /\ UNCHANGED serverExited
    /\ UNCHANGED <<allowExternalCommands, allowCalled, clientExited, clientErrors,
                   calls, localRuns, conns, toServer, serverPort, serverConns>>
    /\ UNCHANGED regVars

\* The server's socket handles the close frame: it answers and closes.
ServerClose(c) ==
    /\ ~serverExited
    /\ ServerIdle
    /\ c \in serverConns
    /\ toServer[c] # <<>>
    /\ Head(toServer[c]) = CloseFrame
    /\ toServer' = [toServer EXCEPT ![c] = Tail(@)]
    /\ toClient' = [toClient EXCEPT ![c] = Append(@, CloseAck)]
    /\ serverConns' = serverConns \ {c}
    /\ UNCHANGED <<allowExternalCommands, allowCalled, clientExited, clientErrors,
                   calls, localRuns, conns, serverPort, serverExited, executing,
                   served>>
    /\ UNCHANGED regVars

\* The connection ids the bounds allow.
ConnIds == 1..(MaxCalls + MaxPeers)

\* The client Builder, the server Builder and the connections exCall makes.
NetNext ==
    \/ AllowExternal
    \/ \E s \in Commands, ip \in Ips, port \in PortArgs, ok \in BOOLEAN :
          ExCall(s, ip, port, ok)
    \/ \E c \in ConnIds : WsOpen(c)
    \/ \E c \in ConnIds : WsError(c)
    \/ \E c \in ConnIds : ClientMessage(c)
    \/ \E c \in ConnIds : ClientDiscard(c)
    \/ \E c \in ConnIds : ClientClosed(c)
    \/ \E port \in PortArgs : StartExServer(port)
    \/ \E c \in ConnIds : ServerMessage(c)
    \/ \E e \in executing, ok \in BOOLEAN : ServerFinish(e, ok)
    \/ \E c \in ConnIds : ServerClose(c)

NetSpec == Init /\ [][NetNext]_vars

\* The server Builder and any programs that connect to it.
ServerNext ==
    \/ \E port \in PortArgs : StartExServer(port)
    \/ PeerConnect
    \/ \E c \in ConnIds, m \in Messages : PeerSend(c, m)
    \/ \E c \in ConnIds : PeerClose(c)
    \/ \E c \in ConnIds : ServerMessage(c)
    \/ \E e \in executing, ok \in BOOLEAN : ServerFinish(e, ok)
    \/ \E c \in ConnIds : ServerClose(c)

ServerSpec == Init /\ [][ServerNext]_vars

\* ------------------------------------------------------------ claims

\* The names of the tasks whose handlers are executing, outermost first.
Chain == [i \in 1..Len(frames) |-> tasks[frames[i].h].name]

Registered(name) == \E i \in 1..Len(tasks) : tasks[i].name = name

\* The handler registered under the first occurrence of `name`.
FirstHandler(name) ==
    LET i == CHOOSE k \in 1..Len(tasks) :
                 /\ tasks[k].name = name
                 /\ \A j \in 1..(k - 1) : tasks[j].name # name
    IN tasks[i].handler

\* C1: runTask(T) for a registered name T, however often T was registered,
\* invokes the handler of the first task registered as T, exactly once (one
\* new activation, no other), and returns what that handler returned.
C1_FirstHandlerOnce ==
    /\ (last.op = "runTask" /\ Registered(last.name)) =>
          /\ ~last.fatal
          /\ Len(frames) = last.depth + 1
          /\ frames[Len(frames)].name = last.name
          /\ frames[Len(frames)].h = FirstHandler(last.name)
    /\ \A i \in 1..Len(frames) : frames[i].h = FirstHandler(frames[i].name)
    /\ last.op = "return" =>
          /\ last.h = FirstHandler(last.name)
          /\ last.value = last.resp

\* C1, reached: a task name registered twice was run and its handler returned.
C1_Witness ==
    /\ last.op = "return"
    /\ last.resp = -1
    /\ \E i, j \in 1..Len(tasks) :
          i < j /\ tasks[i].name = last.name /\ tasks[j].name = last.name

\* C2: runTask with a name no task has never returns: the process ends with
\* status 1, no handler was invoked (no new activation), nothing was pushed on
\* the task stack, and nothing runs afterwards.
C2_UnknownTaskExits ==
    (last.op = "runTask" /\ ~Registered(last.name)) =>
        /\ last.fatal
        /\ exited
        /\ exitStatus = 1
        /\ Len(frames) = last.depth
        /\ taskStack \in {last.stack, Reverse(last.stack)}
        /\ ~ENABLED Next

\* C2, reached: an unknown task was asked for by a handler that a handler had started.
C2_Witness ==
    /\ last.op = "runTask"
    /\ ~Registered(last.name)
    /\ Len(last.stack) = 2
    /\ exited

C4_NegativeIsLoggedNotFatal ==
    last.op = "return" =>
        /\ last.logged <=> (last.resp < 0)
        /\ ~exited
        /\ taskStack = last.entry
        /\ last.value = last.resp

\* C4, reached: a nested task returned a negative number.
C4_Witness ==
    /\ last.op = "return"
    /\ last.resp < 0
    /\ last.logged
    /\ Len(frames) = 1

\* source's modification time is strictly newer than destination's
Newer(srcM, dstM) == srcM # NoTime /\ dstM # NoTime /\ srcM > dstM

\* C8 as stated: compile runs the command at most once; source missing: fatal,
\* command not run; destination missing: run; both present: run exactly when
\* source is strictly newer than destination.
C8_CompileRunsIffNewer ==
    last.op = "compile" =>
        /\ last.ran \in {0, 1}
        /\ ~last.srcExists => (last.ran = 0 /\ exited /\ exitStatus = 1)
        /\ (last.srcExists /\ ~last.dstExists) => last.ran = 1
        /\ (last.srcExists /\ last.dstExists) =>
              (last.ran = 1 <=> Newer(last.srcM, last.dstM))

\* C8 amended: with both present the command runs exactly when source's
\* modification time is unavailable, or is strictly greater than
\* destination's, an unavailable destination time counting as 0.
C8_CompileRunsIffNewerOrNoTime ==
    last.op = "compile" =>
        /\ last.ran \in {0, 1}
        /\ ~last.srcExists => (last.ran = 0 /\ exited /\ exitStatus = 1)
        /\ (last.srcExists /\ ~last.dstExists) => last.ran = 1
        /\ (last.srcExists /\ last.dstExists) =>
              (last.ran = 1 <=>
                  \/ last.srcM = NoTime
                  \/ /\ last.dstM # NoTime
                     /\ last.srcM > last.dstM
                  \/ /\ last.dstM = NoTime
                     /\ last.srcM > 0)

\* C8, reached: both files exist with the same modification time: the command is not run.
C8_Witness ==
    /\ last.op = "compile"
    /\ last.srcExists /\ last.dstExists
    /\ last.srcM = 1 /\ last.dstM = 1
    /\ last.ran = 0
    /\ ~exited

\* C9: runCommand returns true exactly when the command succeeded; a failed
\* command ends the process (status 1) when continueIfFailed is false, and
\* makes runCommand return false, the process going on, when it is true.
C9_RunCommandOutcome ==
    last.op = "runCommand" =>
        /\ last.out = "true" <=> last.ok
        /\ (~last.ok /\ ~last.continueIfFailed) =>
              (last.out = "fatal" /\ exited /\ exitStatus = 1)
        /\ (~last.ok /\ last.continueIfFailed) => (last.out = "false" /\ ~exited)
        /\ last.ok => ~exited

\* C9, reached: a command failed with continueIfFailed set, inside a handler.
C9_Witness ==
    /\ last.op = "runCommand"
    /\ ~last.ok
    /\ last.continueIfFailed
    /\ ~exited
    /\ frames # <<>>


\* The text of a request: "r::" followed by the command.
IsRequest(msg) ==
    Len(msg) >= 3 /\ msg[1] = "r" /\ msg[2] = ":" /\ msg[3] = ":"

\* The text after the three characters of the prefix.
AfterPrefix(msg) == [i \in 1..(Len(msg) - 3) |-> msg[i + 3]]

\* The messages of a queue, its close frame left out.
Texts(q) == SelectSeq(q, LAMBDA m : m # CloseFrame)

\* The status texts of a reply queue, the answer to a close left out.
Statuses(q) == SelectSeq(q, LAMBDA r : r # CloseAck)

RECURSIVE Replies(_)
\* The status texts the server sent for the messages it has handled.
Replies(done) ==
    IF done = <<>> THEN <<>>
    ELSE Replies(Pop(done))
         \o [i \in 1..Len(done[Len(done)].replies) |->
                IF done[Len(done)].replies[i] = 0 THEN "0" ELSE "1"]

\* The messages of a connection the server has taken, in order.
Taken(c) ==
    [i \in 1..Len(served[c]) |-> served[c][i].msg]
    \o (IF \E e \in executing : e.conn = c
        THEN <<(CHOOSE e \in executing : e.conn = c).msg>> ELSE <<>>)

\* C5: on the server every received message that begins with "r::" has the
\* text after the prefix executed once and exactly one reply sent on its
\* connection, 0 for success and 1 for failure; the server keeps running
\* after a failed command; any other message runs nothing and gets no reply.
C5_ServerRepliesPerRequest ==
    /\ ~serverExited
    /\ \A c \in 1..Len(conns) :
          /\ Taken(c) \o Texts(toServer[c]) = conns[c].sent
          /\ Statuses(toClient[c]) = Replies(served[c])
          /\ \A k \in 1..Len(served[c]) :
                LET e == served[c][k] IN
                IF IsRequest(e.msg)
                THEN /\ e.ran
                     /\ e.cmd = AfterPrefix(e.msg)
                     /\ e.replies = <<IF e.ok THEN 0 ELSE 1>>
                ELSE /\ ~e.ran
                     /\ e.replies = <<>>

\* C5, reached: on one connection a command failed, its reply 1 was sent, and the server
\* then ignored a message without the prefix.
C5_Witness ==
    \E c \in 1..Len(conns) :
        /\ Len(served[c]) = 2
        /\ served[c][1].ran /\ ~served[c][1].ok
        /\ ~served[c][2].ran
        /\ Statuses(toClient[c]) = <<"1">>

\* The exCall calls made before (after = FALSE) or after allowExternal.
CallsWhere(after) == {k \in 1..Len(calls) : calls[k].afterAllow = after}

\* The connections exCall call k made.
ConnsOf(k) == {c \in 1..Len(conns) : conns[c].kind = "excall" /\ conns[c].call = k}

\* The commands of the calls made before allowExternal, in order.
LocalCommands ==
    LET before == SelectSeq(calls, LAMBDA x : ~x.afterAllow)
    IN [i \in 1..Len(before) |-> before[i].s]

\* C6 as stated: before allowExternal every exCall runs the command locally
\* and opens no connection; after it every exCall opens a connection to the
\* given address and port, sends "r::" and the command on it, and runs
\* nothing locally.
C6_ExCallOneSide ==
    /\ localRuns = LocalCommands
    /\ \A k \in CallsWhere(FALSE) : ConnsOf(k) = {}
    /\ \A k \in CallsWhere(TRUE) :
          /\ Cardinality(ConnsOf(k)) = 1
          /\ \A c \in ConnsOf(k) :
                /\ conns[c].host = (IF calls[k].ip = NoIp THEN "127.0.0.1"
                                    ELSE calls[k].ip)
                /\ conns[c].port = (IF calls[k].port = 0 THEN 8086
                                    ELSE calls[k].port)
                /\ conns[c].readyState # "connecting" =>
                      conns[c].sent = << <<"r", ":", ":">> \o calls[k].s >>

\* C6 amended: the side is chosen as stated; after allowExternal an exCall
\* makes one connection attempt to the given address and port when these
\* form a URL and none otherwise, and "r::" and the command are sent, once,
\* on a connection that has opened, and on no other.
C6_ExCallOneSideIfConnected ==
    /\ localRuns = LocalCommands
    /\ \A k \in CallsWhere(FALSE) : ConnsOf(k) = {}
    /\ \A k \in CallsWhere(TRUE) :
          /\ Cardinality(ConnsOf(k)) = (IF calls[k].ip = BadIp THEN 0 ELSE 1)
          /\ \A c \in ConnsOf(k) :
                /\ conns[c].host = (IF calls[k].ip = NoIp THEN "127.0.0.1"
                                    ELSE calls[k].ip)
                /\ conns[c].port = (IF calls[k].port = 0 THEN 8086
                                    ELSE calls[k].port)
                /\ conns[c].sent =
                      (IF conns[c].readyState \in {"closing", "closed"}
                       THEN << <<"r", ":", ":">> \o calls[k].s >>
                       ELSE <<>>)

\* C6, reached: a command was run locally, then allowExternal was called and the next
\* command was sent to the server.
C6_Witness ==
    /\ Len(calls) = 2
    /\ ~calls[1].afterAllow
    /\ calls[2].afterAllow
    /\ localRuns = <<calls[1].s>>
    /\ \E c \in ConnsOf(2) : conns[c].sent # <<>>

\* C7: every status the server sends back for a forwarded command is received
\* by the client (its message listener is called with it); a non-zero status
\* is logged as an error and does not end the client, a zero status logs
\* nothing.
C7_ReplyReceived ==
    \A c \in 1..Len(conns) :
        conns[c].kind = "excall" =>
            \A k \in 1..Len(conns[c].seen) :
                LET e == conns[c].seen[k] IN
                /\ e.dispatched
                /\ e.logged <=> (e.data # "0")
                /\ ~clientExited

\* A framed command waits at the head of connection c's queue.
RequestWaiting(c) ==
    /\ c \in serverConns
    /\ toServer[c] # <<>>
    /\ IsRequest(Head(toServer[c]))

\* C10 as stated: execution is not serialized: the command of a message that
\* has arrived while another command runs can start before that one has
\* finished.
C10_CommandsMayOverlap ==
    \A c \in ConnIds :
        (executing # {} /\ RequestWaiting(c)) => ENABLED ServerMessage(c)

\* C10 amended: execution is serialized: at most one command runs on the
\* server at any time, so the command of a second message starts only after
\* the command of the first has finished.
C10_CommandsSerialized == Cardinality(executing) <= 1

\* C10, reached: a command runs while a framed command of another connection waits.
C10_Witness ==
    \E e \in executing, c \in ConnIds : c # e.conn /\ RequestWaiting(c)

====
